---- MODULE Spec2Model ----
(***************************************************************************)
(* Verification model of the Connext chat participant:                     *)
(*   - the chat request handler of src/src/extension.ts (activate), its    *)
(*     shared socket in globalState and the socket event handlers;         *)
(*   - getPrompt: the history window loop and the assembly of the string   *)
(*     it returns.  The source tree holds two revisions of the function    *)
(*     with the same loop and a different ending: src/src/prompt.ts        *)
(*     732-899 and src/unnamed/part_005 371-571.                           *)
(*   - the "response" listener (extension.ts 845-876) and waitForCondition *)
(*     (101-114), each also on its own: the listener over the shapes of    *)
(*     the payload, waitForCondition with a clock;                         *)
(*   - the follow-up provider (extension.ts 993-1025) with askQuestion and *)
(*     generateFollowUps;                                                  *)
(*   - the installations list (src/unnamed/part_001 470-735) that activate *)
(*     computes and the select-installation command changes.               *)
(*                                                                         *)
(* The handler is an async function: each action below is one synchronous  *)
(* section of it, from one await to the next.  Several invocations may be  *)
(* in flight at once, the handler has no guard against that.               *)
(*                                                                         *)
(* Environment: the configured endpoint URL changes only in SpecEndpoint    *)
(* (elsewhere the URL-change branch at lines 718-726 never acts), and the  *)
(* requests of the session model are questions for the platform, not       *)
(* local commands.                                                         *)
(***************************************************************************)
EXTENDS Integers, Sequences, FiniteSets, TLC

\* ---------------------------------------------------------------- bounds
NumAsks == 2
MaxPayloads == 2
MaxDrops == 1
MaxTurns == 3
MaxPairs == 5
MaxCalls == 2
MaxConfigChanges == 1
MaxQuestions == 2
MaxFences == 2
MaxDirs == 2
MaxArchs == 2
MaxActivations == 2
MaxSelects == 2

\* ------------------------------------------------------ program constants
MAX_HISTORY_LENGTH == 65536
RECONNECTION_ATTEMPTS == 3
BeginHumanLen == 24
EndHumanLen == 22
BeginAiLen == 21
EndAiLen == 19
NoResponseLen == 22

Asks == 1..NumAsks
\* The values of the setting connext.intelligencePlatformUrl: two URLs, or
\* None for a setting that is not set.
Urls == {1, 2}
\* Every invocation opens at most one socket: a socket is named by the
\* invocation that opened it.
SocketIds == Asks
None == 0
\* The inbound payloads (845-876).  The server's fragments are told apart by
\* the order in which it sends them: the k-th payload carries fragment k.
PayloadKinds == {"token", "last", "error", "malformed"}
Payload(k, n) == [kind |-> k, token |-> IF k = "token" THEN n ELSE 0]

VARIABLES
    \* globalState (extension.ts 31-65)
    gsSocket,          \* globalState.socket: a socket id, or None for undefined
    connectionReady,   \* globalState.connectionReady
    lastResponse,      \* globalState.lastResponse, as the sequence of fragments
    lastPrompt,        \* globalState.lastPrompt: the ask whose prompt it holds
    \* context.secrets
    tokenStored,       \* an access token is in the secret storage
    \* the socket.io sockets created by io(...)
    sockets,           \* id -> [st, attempts, stale, listeners, emits]
    \* one record per handler invocation (closure variables)
    pc,                \* position of the invocation
    cancelRequested,   \* token.isCancellationRequested
    sock,              \* the local variable socket
    responseReceived,  \* the local variable responseReceived
    result,            \* result.metadata: [error, cancel]
    ui,                \* fragments given to response.markdown by the listener
    \* the notification area of the window
    notes,             \* kinds of the error notifications shown since the
                       \* latest invocation began
    \* history variables
    delivered,         \* token fragments handed to the invocation's listener
    cancelPhase,       \* where the invocation was when its token was cancelled
    nPayloads,         \* payloads delivered so far
    nDrops,            \* connections lost so far
    pending,           \* the asks whose request the server still answers
    \* the endpoint (extension.ts 515-522, 706-729)
    configUrl,         \* config.get("intelligencePlatformUrl")
    selectedUrl,       \* globalState.selectedIntelligencePlatformUrl
    url,               \* the local variable intelligencePlatformUrl
    socketUrl,         \* the URL each socket was opened with
    nConfig,           \* changes of the setting so far
    \* getPrompt (prompt.ts 732-899)
    hist,              \* context.history: sequence of [kind, len]
    promptLen,         \* promptWithInfo.length
    gi,                \* loop index i
    userAsk,
    totalLength,
    previousMessagesList, \* indices of the history turns in the list
    gpc,               \* "loop", "done" (loop left) or "returned"
    revision,          \* the revision of getPrompt that is built
    withInfo,          \* generatePromptWithWorkspaceInfo adds workspace info
    response,          \* the argument response is not null
    promptWithContext, \* the string being returned, as a sequence of pieces
    promptFile,        \* content of the file of prompt.ts 895, <<>> if none
    returned,          \* the strings returned by the calls so far
    \* the "response" listener on its own (extension.ts 845-876)
    inbound,           \* the payloads handed to the listener so far
    lsReceived,        \* responseReceived
    lsError,           \* result.metadata.error
    lsAppended,        \* what was appended to lastResponse, in order
    lsThrew,           \* the latest call of the listener threw
    \* waitForCondition on its own (extension.ts 101-114)
    wKind,             \* "connection" (819-825) or "response" (893-900)
    wNow,              \* Date.now() - startTime, in ms
    wpc,               \* "check", "sleep" or "done"
    wWake,             \* when the timer of line 112 fires
    wFlag,             \* the part of the condition that is not the token
    wCancel,           \* token.isCancellationRequested
    wSinceCancel,      \* ms the wait went on after the cancellation
    wOutcome,          \* what the handler does after the wait
    \* the follow-up provider (extension.ts 993-1025) after one invocation
    fuOutcome,         \* how the invocation ended
    fuMeta,            \* result.metadata of the invocation
    fuReply,           \* what the language model does when asked
    fupc,              \* position of provideFollowups
    fuAsked,           \* generateFollowUps was called
    fuOut,             \* what provideFollowups gives the host
    \* installations (installation.ts; part_001 370-735)
    storedDir,         \* globalState key of the default installation directory
    storedArch,        \* globalState key of the default architecture
    nddshome,          \* process.env.NDDSHOME, or None
    foundDirs,         \* result of findRTIConnextDDSDirectory
    archNames,         \* directory -> result of findArchitecture
    installations,     \* globalState.installations
    lastSelected,      \* positions passed to the latest setDefaultInstallation
    nActivations,      \* activations so far
    nSelects           \* select-installation commands so far

globalVars == <<gsSocket, connectionReady, lastResponse, lastPrompt,
               tokenStored>>
askVars == <<pc, cancelRequested, sock, responseReceived, result, ui,
            notes>>
ghostVars == <<delivered, cancelPhase, nPayloads, nDrops>>
promptVars == <<hist, promptLen, gi, userAsk, totalLength,
                previousMessagesList, gpc, revision, withInfo, response,
                promptWithContext, promptFile, returned>>
listenerVars == <<inbound, lsReceived, lsError, lsAppended, lsThrew>>
waitVars == <<wKind, wNow, wpc, wWake, wFlag, wCancel, wSinceCancel,
             wOutcome>>
urlVars == <<configUrl, selectedUrl, url, socketUrl, nConfig>>
sessionVars == <<globalVars, sockets, askVars, ghostVars, pending, urlVars>>
\* The variables of the functions that are modelled on their own
followVars == <<fuOutcome, fuMeta, fuReply, fupc, fuAsked, fuOut>>
\* The variables of the providers that run beside the handler
instVars == <<storedDir, storedArch, nddshome, foundDirs, archNames,
              installations, lastSelected, nActivations, nSelects>>
asideVars == <<followVars, instVars>>
pureVars == <<promptVars, listenerVars, waitVars, asideVars>>
vars == <<sessionVars, pureVars>>

\* ------------------------------------------------------------ socket.io
\* io(url, {reconnectionAttempts: 3}): a new socket, connecting at once.
\* attempts counts the automatic reconnection attempts of the current run of
\* failures; stale says that the access token of the authorization header
\* (790-792) has been replaced in the secret storage since.
NewSocket ==
    [st |-> "connecting", attempts |-> 0, stale |-> FALSE,
     listeners |-> <<>>, emits |-> <<>>]

NoSocket ==
    [st |-> "none", attempts |-> 0, stale |-> FALSE,
     listeners |-> <<>>, emits |-> <<>>]

\* socket.disconnect(): the socket is closed for good (no reconnection).
\* When it was connected its "disconnect" handler runs at once; every caller
\* assigns socket = undefined and connectionReady = false right after, which
\* is all that handler does.
ClientDisconnect(ss, s) ==
    [ss EXCEPT ![s].st = "closed", ![s].attempts = 0, ![s].stale = FALSE]

\* The sockets once the stored access token is replaced: the held socket is
\* disconnected (678), every other socket that is still connected or
\* connecting goes on with the token it was opened with.
AfterTokenChange(ss, held) ==
    [s \in SocketIds |->
        IF s = held THEN ClientDisconnect(ss, s)[s]
        ELSE IF ss[s].st \in {"connecting", "connected"}
               THEN [ss[s] EXCEPT !.stale = TRUE]
               ELSE ss[s]]

\* socket.on("response", ...) of one invocation
RegisterListener(ss, s, a) == [ss EXCEPT ![s].listeners = Append(@, a)]

\* socket.off("response"): removes every listener of the event
RemoveListeners(ss, s) == [ss EXCEPT ![s].listeners = <<>>]

\* socket.emit("message", ...): the request of ask a, built from lastPrompt
EmitMessage(ss, s, a, p) ==
    [ss EXCEPT ![s].emits = Append(@, [ask |-> a, prompt |-> p])]

Range(q) == {q[k] : k \in 1..Len(q)}

\* ------------------------------------------- the "response" listener
\* Mutant: the catch block of JSON.parse does not end the request.
HandlerReceivedNoParse(rr, p) == rr \/ p.kind \in {"error", "last"}

\* Mutant: a payload with an error field does not mark the result.
HandlerErrorParseOnly(err, p) == err \/ p.kind = "malformed"

\* responseReceived after the listener has run on payload p
HandlerReceived(rr, p) == rr \/ p.kind \in {"malformed", "error", "last"}

\* result.metadata.error after the listener has run on payload p
HandlerError(err, p) == err \/ p.kind \in {"malformed", "error"}

\* globalState.lastResponse += parsedData.token, response.markdown(token)
AppendToken(acc, p) == IF p.kind = "token" THEN Append(acc, p.token) ELSE acc

\* The record of the token fragments handed to a listener, in order
DeliveredTokens(d, p) == IF p.kind = "token" THEN d \o <<p.token>> ELSE d

\* showErrorMessage: an error notification of the given kind is shown.  The
\* kinds shown are recorded from the start of an invocation to the start of
\* the next one.
NoteKinds == {"login", "refresh", "nourl", "connect_error", "connfailed",
              "parse", "server", "timeout"}
NoNotes == {}
AddNote(r, kind) == r \cup {kind}

\* The notifications of the listener (852-854, 862-864)
HandlerNotes(r, p) ==
    IF p.kind = "malformed" THEN AddNote(r, "parse")
    ELSE IF p.kind = "error" THEN AddNote(r, "server")
    ELSE r

\* k listeners run one after the other on the same payload
RECURSIVE AppendTimes(_, _, _)
AppendTimes(acc, p, k) ==
    IF k = 0 THEN acc ELSE AppendTimes(AppendToken(acc, p), p, k - 1)

\* ------------------------------------------------------------ initial
\* The state after activate(): Auth.setup has deleted the stored access
\* token (part_001 36-43).
InitSession ==
    /\ gsSocket = None
    /\ connectionReady = FALSE
    /\ lastResponse = <<>>
    /\ lastPrompt = None
    /\ tokenStored = FALSE
    /\ sockets = [s \in SocketIds |-> NoSocket]
    /\ pc = [a \in Asks |-> "idle"]
    /\ cancelRequested = [a \in Asks |-> FALSE]
    /\ sock = [a \in Asks |-> None]
    /\ responseReceived = [a \in Asks |-> FALSE]
    /\ result = [a \in Asks |-> [error |-> FALSE, cancel |-> FALSE]]
    /\ ui = [a \in Asks |-> <<>>]
    /\ notes = NoNotes
    /\ delivered = [a \in Asks |-> <<>>]
    /\ cancelPhase = [a \in Asks |-> "none"]
    /\ nPayloads = 0
    /\ nDrops = 0
    /\ pending = {}
    /\ configUrl = 1
    /\ selectedUrl = None
    /\ url = [a \in Asks |-> None]
    /\ socketUrl = [s \in SocketIds |-> None]
    /\ nConfig = 0

InitPromptIdle ==
    /\ hist = <<>>
    /\ promptLen = 0
    /\ gi = 0
    /\ userAsk = FALSE
    /\ totalLength = 0
    /\ previousMessagesList = <<>>
    /\ gpc = "done"
    /\ revision = "prompt.ts"
    /\ withInfo = FALSE
    /\ response = FALSE
    /\ promptWithContext = <<>>
    /\ promptFile = <<>>
    /\ returned = <<>>

\* No payload has been handed to the listener.
InitListener ==
    /\ inbound = <<>>
    /\ lsReceived = FALSE
    /\ lsError = FALSE
    /\ lsAppended = <<>>
    /\ lsThrew = FALSE

\* waitForCondition is not running.
InitWaitIdle ==
    /\ wKind = "connection"
    /\ wNow = 0
    /\ wpc = "done"
    /\ wWake = 0
    /\ wFlag = FALSE
    /\ wCancel = FALSE
    /\ wSinceCancel = 0
    /\ wOutcome = "none"

\* What a provider gives the host: nothing yet, a list of n follow-ups,
\* undefined, or an exception
Out(kind, n) == [kind |-> kind, n |-> n]

\* No result has been handed to the follow-up provider
InitFollowupsIdle ==
    /\ fuOutcome = "Answer"
    /\ fuMeta = [error |-> FALSE, cancel |-> FALSE, command |-> "none"]
    /\ fuReply = [fails |-> "noModel", fences |-> 0, body |-> "notJson",
                  n |-> 0]
    /\ fupc = "done"
    /\ fuAsked = FALSE
    /\ fuOut = Out("none", 0)

\* The extension has not been activated and no installation exists
InitInstallationsIdle ==
    /\ storedDir = None
    /\ storedArch = None
    /\ nddshome = None
    /\ foundDirs = <<>>
    /\ archNames = <<>>
    /\ installations = <<>>
    /\ lastSelected = <<>>
    /\ nActivations = 0
    /\ nSelects = 0

InitAsideIdle == InitFollowupsIdle /\ InitInstallationsIdle

Active(a) == pc[a] \notin {"idle", "returned", "threw"}

SetResult(a, e, c) == [result EXCEPT ![a] = [error |-> e, cancel |-> c]]

\* ------------------------------------------------ the chat request handler
\* Mutant: the token is not looked at on entry.
EntryCancelUnchecked(c) == FALSE

\* The test of line 701
EntryCancelChecked(c) == c

\* Mutant: the entry never compares the endpoint.
EndpointNeverChanged == FALSE

\* Lines 718-722: the setting differs from the URL selected by the latest
\* invocation and a socket is held.
EndpointChanged == selectedUrl # configUrl /\ gsSocket # None

\* Invocations are numbered in the order in which the host starts them.
\* Entry (693-738): the cancellation check, the endpoint check, lastPrompt,
\* up to the await of Auth.getAccessToken().
Invoke(a) ==
    /\ pc[a] = "idle"
    /\ \A b \in Asks : b < a => pc[b] # "idle"
    /\ IF EntryCancelChecked(cancelRequested[a])
         THEN /\ result' = SetResult(a, FALSE, TRUE)
              /\ pc' = [pc EXCEPT ![a] = "returned"]
              /\ UNCHANGED <<lastPrompt, gsSocket, connectionReady, sockets,
                             selectedUrl, url>>
         ELSE /\ sockets' = IF EndpointChanged
                               THEN ClientDisconnect(sockets, gsSocket)
                               ELSE sockets
              /\ gsSocket' = IF EndpointChanged THEN None ELSE gsSocket
              /\ connectionReady' = IF EndpointChanged THEN FALSE
                                                        ELSE connectionReady
              /\ selectedUrl' = configUrl
              /\ url' = [url EXCEPT ![a] = configUrl]
              /\ lastPrompt' = a
              /\ pc' = [pc EXCEPT ![a] = "auth"]
              /\ UNCHANGED result
    /\ notes' = NoNotes
    /\ UNCHANGED <<lastResponse, tokenStored, cancelRequested, sock,
                   responseReceived, ui, ghostVars, pending, configUrl,
                   socketUrl, nConfig, pureVars>>

\* Lines 843-891: the listener is registered, getPrompt builds the question
\* and the message is emitted.  getPrompt ends with fs.writeFileSync on a
\* fixed path (prompt.ts 893-896), which throws where the path does not
\* exist: then the handler is left by the exception, listener registered,
\* nothing emitted.
SendSockets(ss, s, a, throws) ==
    IF throws THEN RegisterListener(ss, s, a)
              ELSE EmitMessage(RegisterListener(ss, s, a), s, a, lastPrompt)

SendPc(throws) == IF throws THEN "threw" ELSE "respwait"

\* The server starts to answer the request that was emitted.
SendPending(pend, a, throws) == IF throws THEN pend ELSE pend \cup {a}

\* Mutant: the handler opens a socket for every question.
AlwaysNewSocket(held, ready) == TRUE

\* The test of lines 779-782
NeedsNewSocket(held, ready) == held = None \/ ~ready

\* What Auth.getAccessToken() and the login flow of lines 738-751 come to:
\*   "token"         a token is stored (refreshed if it had expired);
\*   "refreshThrows" the stored token has expired and its refresh fails:
\*                   getAccessToken throws (part_001 206-213), outside any try;
\*   "loggedIn"      nothing stored, the login command stores a token;
\*   "noToken"       nothing stored, the login fails: the login command
\*                   catches the error (533-538), executeCommand resolves and
\*                   the second getAccessToken returns undefined;
\*   "loginThrows"   nothing stored, executeCommand rejects (746-750).
LoginOutcomes == {"token", "refreshThrows", "loggedIn", "noToken",
                  "loginThrows"}

\* After the access token (739-841), and 843-893 when the socket is reused.
\* A login that stores a token runs onDidChange (675-682) on the way.
AuthDone(a, login, throws) ==
    /\ pc[a] = "auth"
    /\ login \in (IF tokenStored THEN {"token", "refreshThrows"}
                               ELSE {"loggedIn", "noToken", "loginThrows"})
    /\ tokenStored' = (tokenStored \/ login = "loggedIn")
    /\ IF login = "loginThrows"
         THEN /\ ~throws
              /\ notes' = AddNote(notes, "login")
              /\ result' = SetResult(a, TRUE, FALSE)
              /\ pc' = [pc EXCEPT ![a] = "returned"]
              /\ UNCHANGED <<gsSocket, connectionReady, lastResponse,
                             sockets, sock, responseReceived, pending,
                             socketUrl>>
         ELSE IF login = "refreshThrows"
         THEN /\ ~throws
              /\ notes' = AddNote(notes, "refresh")
              /\ pc' = [pc EXCEPT ![a] = "threw"]
              /\ UNCHANGED <<gsSocket, connectionReady, lastResponse,
                             sockets, sock, responseReceived, result,
                             pending, socketUrl>>
         ELSE LET stored == (login = "loggedIn")
                  held == IF stored THEN None ELSE gsSocket
                  ready == IF stored /\ gsSocket # None
                             THEN FALSE ELSE connectionReady
                  ss == IF stored THEN AfterTokenChange(sockets, gsSocket)
                                  ELSE sockets
                  noted == IF login = "noToken"
                             THEN AddNote(notes, "login") ELSE notes
              IN  /\ lastResponse' = <<>>
                  /\ connectionReady' = ready
                  /\ IF NeedsNewSocket(held, ready) /\ url[a] = None
                       THEN /\ ~throws
                            /\ notes' = AddNote(noted, "nourl")
                            /\ result' = SetResult(a, TRUE, FALSE)
                            /\ pc' = [pc EXCEPT ![a] = "returned"]
                            /\ sockets' = ss
                            /\ gsSocket' = held
                            /\ UNCHANGED <<sock, responseReceived, pending,
                                           socketUrl>>
                       ELSE IF NeedsNewSocket(held, ready)
                       THEN /\ ~throws
                            /\ notes' = noted
                            /\ sockets' = [ss EXCEPT ![a] = NewSocket]
                            /\ socketUrl' = [socketUrl EXCEPT ![a] = url[a]]
                            /\ gsSocket' = a
                            /\ sock' = [sock EXCEPT ![a] = a]
                            /\ pc' = [pc EXCEPT ![a] = "connwait"]
                            /\ UNCHANGED <<responseReceived, result,
                                           pending>>
                       ELSE /\ notes' = noted
                            /\ sock' = [sock EXCEPT ![a] = held]
                            /\ responseReceived' =
                                   [responseReceived EXCEPT ![a] = FALSE]
                            /\ sockets' = SendSockets(ss, held, a, throws)
                            /\ pending' = SendPending(pending, a, throws)
                            /\ pc' = [pc EXCEPT ![a] = SendPc(throws)]
                            /\ gsSocket' = held
                            /\ UNCHANGED <<result, socketUrl>>
    /\ UNCHANGED <<lastPrompt, cancelRequested, ui, ghostVars, configUrl,
                   selectedUrl, url, nConfig, pureVars>>

\* The condition of the connection wait (820-822)
ConnCondition(a) == connectionReady \/ cancelRequested[a]

\* Mutant: the cancellation is not looked at after the connection wait.
CancelUnchecked(c) == FALSE

\* The test of line 827
CancelChecked(c) == c

\* waitForCondition sees its condition hold (108), then 827-893.
ConnTick(a, throws) ==
    /\ pc[a] = "connwait"
    /\ ConnCondition(a)
    /\ IF CancelChecked(cancelRequested[a])
         THEN /\ ~throws
              /\ result' = SetResult(a, FALSE, TRUE)
              /\ pc' = [pc EXCEPT ![a] = "returned"]
              /\ sock' = [sock EXCEPT ![a] = None]
              /\ UNCHANGED <<sockets, responseReceived, pending>>
         ELSE /\ responseReceived' = [responseReceived EXCEPT ![a] = FALSE]
              /\ sockets' = SendSockets(sockets, sock[a], a, throws)
              /\ pending' = SendPending(pending, a, throws)
              /\ pc' = [pc EXCEPT ![a] = SendPc(throws)]
              /\ UNCHANGED <<result, sock>>
    /\ UNCHANGED <<globalVars, cancelRequested, ui, notes, ghostVars,
                   urlVars, pureVars>>

\* Mutant: the return of line 837 is missing, the handler goes on to
\* register its listener and emit.
ConnFailedFallsThrough(ss, s, a) ==
    EmitMessage(RegisterListener(ss, s, a), s, a, lastPrompt)

\* Lines 834-838 on the sockets: the handler returns, the socket is left as
\* it is.
ConnFailedSockets(ss, s, a) == ss

\* waitForCondition gives up after 10 s (109-110), then 827-838.
ConnTimeout(a) ==
    /\ pc[a] = "connwait"
    /\ ~ConnCondition(a)
    /\ result' = SetResult(a, TRUE, FALSE)
    /\ notes' = AddNote(notes, "connfailed")
    /\ sockets' = ConnFailedSockets(sockets, sock[a], a)
    /\ pc' = [pc EXCEPT ![a] = "returned"]
    /\ sock' = [sock EXCEPT ![a] = None]
    /\ UNCHANGED <<globalVars, cancelRequested, responseReceived,
                   ui, ghostVars, pending, urlVars, pureVars>>

\* The condition of the response wait (894-897)
RespCondition(a) ==
    responseReceived[a] \/ ~connectionReady \/ cancelRequested[a]

\* Mutant: the cancellation branch forgets socket.disconnect().
TeardownSocketsForgotten(ss, s) == ss

\* Lines 984-986 on the sockets: the invocation's socket is disconnected.
TeardownSockets(ss, s) == ClientDisconnect(ss, s)

\* Lines 902-906 and 974-989: the "Request timed out." notification when
\* neither a terminal payload nor the cancellation ended the wait, then
\* socket.off, the cancellation teardown, return.  The
\* invocation's closure is unreachable from then on (its listener is off):
\* its local variables are dropped, the result goes to the caller.
Finish(a) ==
    /\ pc' = [pc EXCEPT ![a] = "returned"]
    /\ notes' = IF ~responseReceived[a] /\ ~cancelRequested[a]
                  THEN AddNote(notes, "timeout") ELSE notes
    /\ sock' = [sock EXCEPT ![a] = None]
    /\ responseReceived' = [responseReceived EXCEPT ![a] = FALSE]
    /\ ui' = [ui EXCEPT ![a] = <<>>]
    /\ delivered' = [delivered EXCEPT ![a] = <<>>]
    /\ IF cancelRequested[a]
         THEN /\ result' = [result EXCEPT ![a].cancel = TRUE]
              /\ sockets' = TeardownSockets(RemoveListeners(sockets, sock[a]),
                                            sock[a])
              /\ gsSocket' = None
              /\ connectionReady' = FALSE
         ELSE /\ sockets' = RemoveListeners(sockets, sock[a])
              /\ UNCHANGED <<result, gsSocket, connectionReady>>
    /\ UNCHANGED <<lastResponse, lastPrompt, tokenStored, cancelRequested,
                   cancelPhase, nPayloads, nDrops, pending, urlVars, pureVars>>

\* waitForCondition sees its condition hold (108), then 902-911: without a
\* terminal payload straight to 974, else up to await getCodeContentInfo.
RespTick(a) ==
    /\ pc[a] = "respwait"
    /\ RespCondition(a)
    /\ IF responseReceived[a]
         THEN /\ pc' = [pc EXCEPT ![a] = "post1"]
              /\ UNCHANGED <<globalVars, sockets, cancelRequested, sock,
                             responseReceived, result, ui, notes, ghostVars,
                             pending, urlVars, pureVars>>
         ELSE Finish(a)

\* waitForCondition gives up after 120 s (109-110), then 902-906, 974-989.
RespTimeout(a) ==
    /\ pc[a] = "respwait"
    /\ ~RespCondition(a)
    /\ Finish(a)

\* getCodeContentInfo (326-373) returns, or askQuestion (132-141) throws in
\* it; then 916-937 up to await getRelatedApplication.
PostCodeInfo(a, throws) ==
    /\ pc[a] = "post1"
    /\ pc' = [pc EXCEPT ![a] = IF throws THEN "threw" ELSE "post2"]
    /\ UNCHANGED <<globalVars, sockets, cancelRequested, sock,
                   responseReceived, result, ui, notes, ghostVars,
                   pending, urlVars, pureVars>>

\* getRelatedApplication (388-420) returns or throws; then 939-989.
PostRelatedApp(a, throws) ==
    /\ pc[a] = "post2"
    /\ IF throws
         THEN /\ pc' = [pc EXCEPT ![a] = "threw"]
              /\ UNCHANGED <<globalVars, sockets, cancelRequested, sock,
                             responseReceived, result, ui, notes, ghostVars,
                             pending, urlVars, pureVars>>
         ELSE Finish(a)

\* ------------------------------------------------------------ environment
\* token.isCancellationRequested becomes true
Cancel(a) ==
    /\ pc[a] \notin {"returned", "threw"}
    /\ ~cancelRequested[a]
    /\ cancelRequested' = [cancelRequested EXCEPT ![a] = TRUE]
    /\ cancelPhase' = [cancelPhase EXCEPT
           ![a] = IF pc[a] = "respwait" /\ ~responseReceived[a]
                    THEN "awaiting"
                    ELSE IF pc[a] = "connwait" THEN "connecting"
                    ELSE IF pc[a] \in {"idle", "auth"} THEN "early"
                    ELSE "late"]
    /\ UNCHANGED <<globalVars, sockets, pc, sock, responseReceived, result,
                   ui, notes, delivered, nPayloads, nDrops, pending, urlVars, pureVars>>

\* "connect" of socket s and its handler (798-800)
SocketConnect(s) ==
    /\ sockets[s].st = "connecting"
    /\ sockets' = [sockets EXCEPT ![s].st = "connected", ![s].attempts = 0]
    /\ connectionReady' = TRUE
    /\ UNCHANGED <<gsSocket, lastResponse, lastPrompt, tokenStored, askVars,
                   ghostVars, pending, urlVars, pureVars>>

\* Mutant: the socket gives up one reconnection attempt too late.
GivesUpLate(n) == n >= RECONNECTION_ATTEMPTS + 1

\* reconnectionAttempts: 3 (793): no attempt after the third reconnection
GivesUp(n) == n >= RECONNECTION_ATTEMPTS

\* "connect_error" of socket s and its handler (807-817): the attempt
\* failed; socket.io starts the next reconnection attempt, or gives up when
\* reconnectionAttempts of them have failed.  The handler shows an error
\* message (recorded while an invocation is in flight).
SocketConnectError(s) ==
    /\ sockets[s].st = "connecting"
    /\ sockets' = [sockets EXCEPT
           ![s].attempts = IF GivesUp(@) THEN 0 ELSE @ + 1,
           ![s].stale = IF GivesUp(sockets[s].attempts) THEN FALSE ELSE @,
           ![s].st = IF GivesUp(sockets[s].attempts)
                       THEN "failed" ELSE "connecting"]
    /\ notes' = IF \E a \in Asks : Active(a)
                  THEN AddNote(notes, "connect_error") ELSE notes
    /\ UNCHANGED <<globalVars, pc, cancelRequested, sock, responseReceived,
                   result, ui, ghostVars, pending, urlVars, pureVars>>

\* The asks that have emitted a request on socket s
EmittedOn(ss, s) == {ss[s].emits[k].ask : k \in 1..Len(ss[s].emits)}

\* "disconnect" of socket s and its handler (802-805): the connection is
\* lost; socket.io starts its first reconnection attempt unless the server
\* closed the socket.
SocketDrop(s, again) ==
    /\ sockets[s].st = "connected"
    /\ nDrops < MaxDrops
    /\ nDrops' = nDrops + 1
    /\ sockets' = [sockets EXCEPT
           ![s].st = IF again THEN "connecting" ELSE "closed",
           ![s].attempts = IF again THEN 1 ELSE 0,
           ![s].stale = IF again THEN @ ELSE FALSE]
    /\ gsSocket' = None
    /\ connectionReady' = FALSE
    /\ pending' = pending \ EmittedOn(sockets, s)
    /\ UNCHANGED <<lastResponse, lastPrompt, tokenStored, askVars, delivered,
                   cancelPhase, nPayloads, urlVars, pureVars>>

\* The requests the server still answers once payload kind k of its reply
\* to request r is out: the terminal payload and the error payload end the
\* reply.
StillPending(pend, k, r) ==
    IF k \in {"last", "error"} THEN pend \ {r} ELSE pend

\* A "response" payload arrives on socket s, sent by the server in reply to
\* the request of ask r: every listener runs (845-876).
Deliver(s, k, r) ==
    /\ sockets[s].st = "connected"
    /\ sockets[s].listeners # <<>>
    /\ r \in EmittedOn(sockets, s)
    /\ nPayloads < MaxPayloads
    /\ nPayloads' = nPayloads + 1
    /\ pending' = StillPending(pending, k, r)
    /\ LET L == Range(sockets[s].listeners)
           p == Payload(k, nPayloads + 1)
       IN  /\ responseReceived' =
                 [a \in Asks |-> IF a \in L
                                   THEN HandlerReceived(responseReceived[a], p)
                                   ELSE responseReceived[a]]
           /\ result' =
                 [a \in Asks |-> IF a \in L
                                   THEN [result[a] EXCEPT
                                           !.error = HandlerError(@, p)]
                                   ELSE result[a]]
           /\ ui' = [a \in Asks |-> IF a \in L THEN AppendToken(ui[a], p)
                                               ELSE ui[a]]
           /\ notes' = IF \E a \in Asks : Active(a)
                         THEN HandlerNotes(notes, p) ELSE notes
           /\ delivered' = [a \in Asks |-> IF a \in L
                                             THEN DeliveredTokens(delivered[a], p)
                                             ELSE delivered[a]]
           /\ lastResponse' =
                 AppendTimes(lastResponse, p, Len(sockets[s].listeners))
    /\ UNCHANGED <<gsSocket, connectionReady, lastPrompt, tokenStored,
                   sockets, pc, cancelRequested, sock, cancelPhase, nDrops,
                   urlVars, pureVars>>

\* The stored access token is replaced (login, refresh, logout) and
\* context.secrets.onDidChange runs (675-682); the host delivers the event
\* before the promise of the store resolves, so no handler code runs between
\* the two.
TokenChanged ==
    /\ sockets' = AfterTokenChange(sockets, gsSocket)
    /\ tokenStored' = TRUE
    /\ sockets' # sockets \/ ~tokenStored
    /\ gsSocket' = None
    /\ connectionReady' = IF gsSocket # None THEN FALSE ELSE connectionReady
    /\ UNCHANGED <<lastResponse, lastPrompt, askVars, ghostVars, pending, urlVars, pureVars>>

\* The user edits the "connext" settings: the listener re-reads the
\* configuration (515-522), and the next invocation finds the new Intelligence
\* Platform URL, or none when the setting is cleared.
ConfigChanged(u) ==
    /\ nConfig < MaxConfigChanges
    /\ u # configUrl
    /\ configUrl' = u
    /\ nConfig' = nConfig + 1
    /\ UNCHANGED <<globalVars, sockets, askVars, ghostVars, pending,
                   selectedUrl, url, socketUrl, pureVars>>

Init ==
    /\ InitSession
    /\ InitPromptIdle
    /\ InitListener
    /\ InitWaitIdle
    /\ InitAsideIdle

\* The steps of the handler after its entry
HandlerSteps ==
    \/ \E a \in Asks, l \in LoginOutcomes, t \in BOOLEAN :
          AuthDone(a, l, t)
    \/ \E a \in Asks, t \in BOOLEAN : ConnTick(a, t)
    \/ \E a \in Asks : ConnTimeout(a)
    \/ \E a \in Asks : RespTick(a)
    \/ \E a \in Asks : RespTimeout(a)
    \/ \E a \in Asks, t \in BOOLEAN : PostCodeInfo(a, t)
    \/ \E a \in Asks, t \in BOOLEAN : PostRelatedApp(a, t)

\* The user and a server that is reachable
HealthySteps ==
    \/ \E a \in Asks : Cancel(a)
    \/ \E s \in SocketIds : SocketConnect(s)
    \/ \E s \in SocketIds, k \in PayloadKinds, r \in Asks :
          Deliver(s, k, r)

\* Failed connection attempts, lost connections, replaced access tokens
FailureSteps ==
    \/ \E s \in SocketIds : SocketConnectError(s)
    \/ \E s \in SocketIds, again \in BOOLEAN : SocketDrop(s, again)
    \/ TokenChanged

\* Every step but the start of an invocation
Steps ==
    \/ HandlerSteps
    \/ HealthySteps
    \/ FailureSteps

\* The host may start an invocation while others are in flight (several
\* chat views share the participant).
Next ==
    \/ \E a \in Asks : Invoke(a)
    \/ Steps

Spec == Init /\ [][Next]_vars

\* The host of a single chat view: it starts an invocation only when the one
\* before has returned or thrown.
InvokeSerial(a) ==
    /\ \A b \in Asks : ~Active(b)
    /\ Invoke(a)

NextSerial ==
    \/ \E a \in Asks : InvokeSerial(a)
    \/ Steps

SpecSerial == Init /\ [][NextSerial]_vars

\* Overlapping invocations on a network without failures: the host may start
\* an invocation while others are in flight, every connection attempt
\* succeeds in the end, no connection is lost and the access token stays.
NextOverlap ==
    \/ \E a \in Asks : Invoke(a)
    \/ HandlerSteps
    \/ HealthySteps

SpecOverlap == Init /\ [][NextOverlap]_vars

\* A single chat view whose user edits the settings between and during
\* invocations, on a network without failures.
NextEndpoint ==
    \/ \E a \in Asks : InvokeSerial(a)
    \/ HandlerSteps
    \/ HealthySteps
    \/ \E u \in Urls \cup {None} : ConfigChanged(u)

SpecEndpoint == Init /\ [][NextEndpoint]_vars

\* ================================================================ getPrompt
\* The history window of getPrompt (prompt.ts 751-850), with rest_api true.
\* A turn is [kind, len]: for a request len is turn.prompt.length, for a
\* response it is the length of its markdown parts, each followed by "\n",
\* once the validation hint and warning are stripped (796-822).  The texts
\* themselves play no part in the loop, only their lengths do.
RequestLens == {10, 30000}
ResponseLens == {0, 30000}
PromptLens == {10, 5490, 65535, 65536, 70000}

RequestTurn(n) == [kind |-> "Request", len |-> n]
ResponseTurn(n) == [kind |-> "Response", len |-> n]
Turns == {RequestTurn(n) : n \in RequestLens}
         \cup {ResponseTurn(n) : n \in ResponseLens}

\* context.history as the host builds it: a request, then its response.
PairHistory(f) ==
    [k \in 1..(2 * Len(f)) |->
        IF k % 2 = 1 THEN RequestTurn(f[(k + 1) \div 2][1])
                     ELSE ResponseTurn(f[k \div 2][2])]

Histories ==
    UNION {[1..n -> Turns] : n \in 0..MaxTurns}
    \cup UNION {{PairHistory(f) : f \in [1..n -> RequestLens \X ResponseLens]}
                   : n \in 0..MaxPairs}

\* limit (751-761)
Limit(plen) ==
    IF MAX_HISTORY_LENGTH - plen < 0 THEN 0 ELSE MAX_HISTORY_LENGTH - plen

\* request.length of a request turn (774-781)
RequestSerializedLen(t) == BeginHumanLen + t.len + 1 + EndHumanLen

\* response.length of a response turn (788-830): an empty response is
\* replaced by "No response provided.\n"
ResponseSerializedLen(t) ==
    BeginAiLen + t.len + (IF t.len = 0 THEN NoResponseLen ELSE 0) + EndAiLen

\* What a turn adds to totalLength (784, 834)
Counted(t) ==
    IF t.kind = "Request" THEN t.len ELSE ResponseSerializedLen(t)

\* Mutant: only the user ask is popped, its response is left in the list.
EvictAskOnly(list) == Tail(list)

\* Lines 839-845: the last user ask is popped, then the entry after it.
Evict(list) ==
    IF Len(Tail(list)) > 0 THEN Tail(Tail(list)) ELSE Tail(list)

\* The test of line 838
OverLimit(total, ask, limit) == total > limit /\ ask

\* The two revisions of getPrompt in the source tree
Revisions == {"prompt.ts", "part_005"}

\* Mutant: the loop also runs when limit is 0.
LoopEntryAtZero(limit, n) ==
    IF limit >= 0 /\ n > 0 THEN "loop" ELSE "done"

\* Lines 763-768: the loop is entered when limit > 0 and the history has a
\* turn.
LoopEntry(limit, n) == IF limit > 0 /\ n > 0 THEN "loop" ELSE "done"

\* The start of a call: lines 741-768
StartCall ==
    /\ gi = Len(hist)
    /\ userAsk = FALSE
    /\ totalLength = 0
    /\ previousMessagesList = <<>>
    /\ promptWithContext = <<>>
    /\ gpc = LoopEntry(Limit(promptLen), Len(hist))

\* The environment of the calls: the argument prompt is a string (the
\* handler passes globalState.lastPrompt, set at extension.ts 734), rest_api
\* is true, no turn of the history holds a workspace info block (858-861
\* then replaces nothing) or comes from the generateSystemXmlModel command,
\* and the directory of the file of line 895 exists.
InitPrompt ==
    /\ InitSession
    /\ InitListener
    /\ InitWaitIdle
    /\ InitAsideIdle
    /\ hist \in Histories
    /\ promptLen \in PromptLens
    /\ revision \in Revisions
    /\ withInfo \in BOOLEAN
    /\ response \in BOOLEAN
    /\ promptFile = <<>>
    /\ returned = <<>>
    /\ StartCall

\* One iteration of the loop 766-849
GetPromptStep ==
    /\ gpc = "loop"
    /\ LET t == hist[gi]
           total == totalLength + Counted(t)
           ask == (t.kind = "Request")
           list == <<gi>> \o previousMessagesList
       IN  /\ totalLength' = total
           /\ userAsk' = ask
           /\ IF OverLimit(total, ask, Limit(promptLen))
                THEN /\ previousMessagesList' = Evict(list)
                     /\ gpc' = "done"
                     /\ gi' = gi
                ELSE /\ previousMessagesList' = list
                     /\ gi' = gi - 1
                     /\ gpc' = IF gi - 1 >= 1 THEN "loop" ELSE "done"
    /\ UNCHANGED <<hist, promptLen, revision, withInfo, response,
                   promptWithContext, promptFile, returned, sessionVars, asideVars,
                   listenerVars, waitVars>>

\* The pieces of the returned string
Piece(k, n) == [kind |-> k, turn |-> n]
BeginHumanRestMessage == Piece("[[BEGIN Human message]]\\n", 0)
EndHumanRestMessage == Piece("[[END Human message]]\\n", 0)
BeginAiRestMessage == Piece("[[BEGIN AI message]]\\n", 0)
EndAiRestMessage == Piece("[[END AI message]]\\n", 0)
NewLine == Piece("\\n", 0)

\* The entry of previousMessagesList for turn k of the history (774-783,
\* 788-833)
SerializedTurn(h, k) ==
    IF h[k].kind = "Request"
      THEN <<BeginHumanRestMessage, Piece("turn.prompt", k), NewLine,
             EndHumanRestMessage>>
      ELSE <<BeginAiRestMessage,
             IF h[k].len = 0 THEN Piece("No response provided.\\n", 0)
                             ELSE Piece("turn.response", k),
             EndAiRestMessage>>

\* Lines 852-856: the entries of the list, concatenated
RECURSIVE Concatenated(_, _)
Concatenated(h, list) ==
    IF list = <<>> THEN <<>>
    ELSE SerializedTurn(h, Head(list)) \o Concatenated(h, Tail(list))

\* generatePromptWithWorkspaceInfo (prompt.ts 633-699): the prompt and a
\* newline, then the workspace info block when there is a reference or a
\* default installation.
PromptWithInfo(info) ==
    <<Piece("prompt", 0), NewLine>>
    \o (IF info THEN <<Piece("[Start Workspace Info]...", 0)>> ELSE <<>>)

\* part_005 539-550: a second human message with a fixed instruction
ValidateInstruction(rev) ==
    IF rev = "part_005"
      THEN <<BeginHumanRestMessage, Piece("If the request requires...", 0),
             EndHumanRestMessage>>
      ELSE <<>>

\* Lines 879-891: the response, when one is given
ResponseMessage(resp) ==
    IF resp
      THEN <<BeginAiRestMessage, Piece("response", 0), NewLine,
             EndAiRestMessage>>
      ELSE <<>>

\* Lines 852-891 (part_005 513-564)
Assembled(rev, h, list, info, resp) ==
    Concatenated(h, list)
    \o <<BeginHumanRestMessage>> \o PromptWithInfo(info)
    \o <<EndHumanRestMessage>>
    \o ValidateInstruction(rev)
    \o ResponseMessage(resp)

\* Lines 893-896: prompt.ts writes the string to a file when response is
\* null; in part_005 the statement is commented out (566-569).
WritesFile(rev, resp) == rev = "prompt.ts" /\ ~resp

\* Lines 852-898: the string is assembled, written to the file and returned.
GetPromptReturn ==
    /\ gpc = "done"
    /\ LET out == Assembled(revision, hist, previousMessagesList, withInfo,
                            response)
       IN  /\ promptWithContext' = out
           /\ promptFile' = IF WritesFile(revision, response)
                              THEN out ELSE promptFile
           /\ returned' = Append(returned, out)
    /\ gpc' = "returned"
    /\ UNCHANGED <<hist, promptLen, gi, userAsk, totalLength,
                   previousMessagesList, revision, withInfo, response,
                   sessionVars, asideVars,
                   listenerVars, waitVars>>

\* getPrompt is called again with the same arguments.
GetPromptAgain ==
    /\ gpc = "returned"
    /\ Len(returned) < MaxCalls
    /\ UNCHANGED <<hist, promptLen, revision, withInfo, response,
                   promptFile, returned, sessionVars, asideVars,
                   listenerVars, waitVars>>
    /\ gi' = Len(hist)
    /\ userAsk' = FALSE
    /\ totalLength' = 0
    /\ previousMessagesList' = <<>>
    /\ promptWithContext' = <<>>
    /\ gpc' = LoopEntry(Limit(promptLen), Len(hist))

NextPrompt == GetPromptStep \/ GetPromptReturn \/ GetPromptAgain

SpecPrompt == InitPrompt /\ [][NextPrompt]_vars

\* ==================================================== the listener alone
\* The shapes of the string handed to the "response" listener: text that is
\* not JSON, the JSON texts null and a number, and JSON objects by their
\* fields error, last_token and token.
ErrorFields == {"absent", "false", "true"}
LastTokenFields == {"absent", "false", "true", "string"}
TokenFields == {"absent", "text"}

Shape(j, e, l, t) == [json |-> j, error |-> e, last_token |-> l, token |-> t]

PayloadShapes ==
    {Shape(j, "absent", "absent", "absent") : j \in {"invalid", "null",
                                                      "number"}}
    \cup {Shape("object", e, l, t) :
             e \in ErrorFields, l \in LastTokenFields, t \in TokenFields}

\* What the listener (845-876) does with a payload: "parse" for the catch
\* of JSON.parse (849-857), "throws" for the TypeError of parsedData.error
\* on null (860), "server" for 860-866, "last" for 868-869, else 871-872
\* with the value of parsedData.token.
ListenerBranch(p) ==
    IF p.json = "invalid" THEN "parse"
    ELSE IF p.json = "null" THEN "throws"
    ELSE IF p.error = "true" THEN "server"
    ELSE IF p.last_token = "true" THEN "last"
    ELSE "append"

\* The string that lastResponse += parsedData.token appends (871)
AppendedText(p) == IF p.token = "text" THEN "token" ELSE "undefined"

\* One call of the listener
OnResponse(p) ==
    /\ Len(inbound) < MaxPayloads
    /\ inbound' = Append(inbound, p)
    /\ LET b == ListenerBranch(p)
       IN  /\ lsThrew' = (b = "throws")
           /\ lsReceived' = (lsReceived \/ b \in {"parse", "server", "last"})
           /\ lsError' = (lsError \/ b \in {"parse", "server"})
           /\ lsAppended' = IF b = "append"
                               THEN Append(lsAppended, AppendedText(p))
                               ELSE lsAppended
    /\ UNCHANGED <<sessionVars, asideVars, promptVars, waitVars>>

InitListenerAlone ==
    /\ InitSession
    /\ InitPromptIdle
    /\ InitListener
    /\ InitWaitIdle
    /\ InitAsideIdle

NextListener == \E p \in PayloadShapes : OnResponse(p)

SpecListener == InitListenerAlone /\ [][NextListener]_vars

\* ============================================== waitForCondition alone
CHECK_INTERVAL == 100
CONNECTION_TIMEOUT == 10000
RESPONSE_TIMEOUT == 120000
\* The clock is read in steps of ClockStep ms.
ClockStep == 50

WaitKinds == {"connection", "response"}
Timeout(kind) ==
    IF kind = "connection" THEN CONNECTION_TIMEOUT ELSE RESPONSE_TIMEOUT

\* Mutant: the token is not part of the condition.
WaitConditionNoCancel(flag, cancel) == flag

\* The conditions the handler passes (820-822, 894-897): connectionReady,
\* or responseReceived || !connectionReady, each or-ed with the token.
WaitCondition(flag, cancel) == flag \/ cancel

\* What the handler does once the wait is over (827-838; 902-906, 976-987)
AfterWait(kind, flag, cancel) ==
    IF cancel THEN "Cancelled"
    ELSE IF flag THEN "Proceed"
    ELSE IF kind = "connection" THEN "ConnectionFailed" ELSE "TimedOut"

\* The call: startTime = Date.now() (106).  The timers fire on time and the
\* synchronous sections take no time.
InitWait ==
    /\ InitSession
    /\ InitPromptIdle
    /\ InitListener
    /\ InitAsideIdle
    /\ wKind \in WaitKinds
    /\ wNow = 0
    /\ wpc = "check"
    /\ wWake = 0
    /\ wFlag \in BOOLEAN
    /\ wCancel \in BOOLEAN
    /\ wSinceCancel = 0
    /\ wOutcome = "none"

\* Mutant: the wait gives up as soon as the timeout is reached.
DeadlineReached(elapsed, timeout) == elapsed >= timeout

\* Line 109: Date.now() - startTime > timeout
DeadlinePassed(elapsed, timeout) == elapsed > timeout

\* Lines 108-112: the loop test, the deadline test, the timer.
WaitCheck ==
    /\ wpc = "check"
    /\ IF WaitCondition(wFlag, wCancel)
          \/ DeadlinePassed(wNow, Timeout(wKind))
         THEN /\ wpc' = "done"
              /\ wOutcome' = AfterWait(wKind, wFlag, wCancel)
              /\ wWake' = wWake
         ELSE /\ wpc' = "sleep"
              /\ wWake' = wNow + CHECK_INTERVAL
              /\ wOutcome' = wOutcome
    /\ UNCHANGED <<wKind, wNow, wFlag, wCancel, wSinceCancel,
                   sessionVars, asideVars, promptVars, listenerVars>>

\* The timer of line 112 fires.
WaitWake ==
    /\ wpc = "sleep"
    /\ wNow = wWake
    /\ wpc' = "check"
    /\ UNCHANGED <<wKind, wNow, wWake, wFlag, wCancel, wSinceCancel,
                   wOutcome, sessionVars, asideVars, promptVars, listenerVars>>

\* Time passes while the function sleeps.
ClockTick ==
    /\ wpc = "sleep"
    /\ wNow < wWake
    /\ wNow' = wNow + ClockStep
    /\ wSinceCancel' = IF wCancel THEN wSinceCancel + ClockStep
                                  ELSE wSinceCancel
    /\ UNCHANGED <<wKind, wpc, wWake, wFlag, wCancel, wOutcome,
                   sessionVars, asideVars, promptVars, listenerVars>>

\* A socket event handler or the listener changes the flag.
FlagChanges ==
    /\ wpc = "sleep"
    /\ wFlag' = ~wFlag
    /\ UNCHANGED <<wKind, wNow, wpc, wWake, wCancel, wSinceCancel,
                   wOutcome, sessionVars, asideVars, promptVars, listenerVars>>

\* The cancellation token fires.
CancelFires ==
    /\ wpc = "sleep"
    /\ ~wCancel
    /\ wCancel' = TRUE
    /\ UNCHANGED <<wKind, wNow, wpc, wWake, wFlag, wSinceCancel,
                   wOutcome, sessionVars, asideVars, promptVars, listenerVars>>

NextWait ==
    WaitCheck \/ WaitWake \/ ClockTick \/ FlagChanges \/ CancelFires

SpecWait == InitWait /\ [][NextWait]_vars

\* The event loop runs a continuation that is ready and a timer that is due,
\* and the clock advances.
SpecWaitFair ==
    /\ SpecWait
    /\ WF_vars(WaitCheck)
    /\ WF_vars(WaitWake)
    /\ WF_vars(ClockTick)

\* ====================================================== follow-up provider
\* Lines 1003-1007: the commands that run a local application or print the
\* installation
LocalCommands ==
    {"startAdminConsole", "startSystemDesigner", "startMonitorUI",
     "startShapesDemo", "connextInfo"}

\* request.command: none, a local command or openFiles (753-775)
Commands == LocalCommands \cup {"none", "openFiles"}

\* How an invocation ends.  A local command ends before any request is made
\* (753-771), after the entry cancellation check and the login.
AskOutcomes ==
    {"Answer", "TimedOut", "Cancelled", "ConnectionFailed", "ServerError",
     "ParseError", "LoginFailed", "NoUrl", "Local"}

OutcomesOf(command) ==
    IF command \in LocalCommands
      THEN {"Local", "Cancelled", "LoginFailed"}
      ELSE AskOutcomes \ {"Local"}

\* result.metadata as the handler leaves it: built at 693-699, error set at
\* 748, 785, 836 and by the listener (856, 866), cancel at 702, 830 and
\* 977; the timeout branch (902-906) sets neither.
Metadata(outcome, command) ==
    [error |-> outcome \in {"ConnectionFailed", "ServerError", "ParseError",
                            "LoginFailed", "NoUrl"},
     cancel |-> outcome = "Cancelled",
     command |-> command]

\* What askQuestion meets (123-144): no model selected, so that model is
\* undefined and model.sendRequest throws; a request that throws; or a text,
\* described by the number of ```json ... ``` blocks around its body and by
\* what the body is.
ReplyBodies == {"notJson", "null", "noQuestions", "questions"}

ModelReplies ==
    [fails : {"noModel", "sendThrows"}, fences : {0}, body : {"notJson"},
     n : {0}]
      \cup [fails : {"no"}, fences : 0..MaxFences, body : ReplyBodies,
            n : 0..MaxQuestions]

AskQuestionThrows(reply) == reply.fails # "no"

\* Lines 207-208: the first "```json" and the first "```" left are removed
StripFences(reply) ==
    [reply EXCEPT !.fences = IF @ > 0 THEN @ - 1 ELSE 0]

\* Lines 212-217: JSON.parse of the stripped text
JsonParses(text) == text.fences = 0 /\ text.body # "notJson"

\* Lines 219-226: parsedData.questions.length of null or of an object
\* without the member throws a TypeError; else one follow-up per question.
Questions(text) ==
    IF text.body = "questions" THEN Out("list", text.n) ELSE Out("threw", 0)

\* Lines 205-228 once askQuestion has returned
FollowUps(reply) ==
    LET text == StripFences(reply)
    IN  IF ~JsonParses(text) THEN Out("list", 0) ELSE Questions(text)

InitFollowups ==
    /\ InitSession
    /\ InitPromptIdle
    /\ InitListener
    /\ InitWaitIdle
    /\ InitInstallationsIdle
    /\ \E c \in Commands :
          /\ fuOutcome \in OutcomesOf(c)
          /\ fuMeta = Metadata(fuOutcome, c)
    /\ fuReply \in ModelReplies
    /\ fupc = "start"
    /\ fuAsked = FALSE
    /\ fuOut = Out("none", 0)

\* Lines 998-1000
SkipsFollowups(meta) == meta.error \/ meta.cancel

\* provideFollowups up to the await in askQuestion (998-1021, 205, 123-133)
ProvideFollowups ==
    /\ fupc = "start"
    /\ IF SkipsFollowups(fuMeta)
         THEN /\ fupc' = "done"
              /\ fuOut' = Out("list", 0)
              /\ UNCHANGED fuAsked
         ELSE IF fuMeta.command \notin LocalCommands
                THEN /\ fupc' = "asking"
                     /\ fuAsked' = TRUE
                     /\ UNCHANGED fuOut
                ELSE /\ fupc' = "done"
                     /\ fuOut' = Out("undefined", 0)
                     /\ UNCHANGED fuAsked
    /\ UNCHANGED <<fuOutcome, fuMeta, fuReply, sessionVars, promptVars,
                   listenerVars, waitVars, instVars>>

\* askQuestion returns or throws (133-143), then 205-228
AskQuestionDone ==
    /\ fupc = "asking"
    /\ fupc' = "done"
    /\ fuOut' = IF AskQuestionThrows(fuReply) THEN Out("threw", 0)
                                               ELSE FollowUps(fuReply)
    /\ UNCHANGED <<fuOutcome, fuMeta, fuReply, fuAsked, sessionVars,
                   promptVars, listenerVars, waitVars, instVars>>

NextFollowups == ProvideFollowups \/ AskQuestionDone

SpecFollowups == InitFollowups /\ [][NextFollowups]_vars

\* ============================================================ installations
\* Installation directories and architecture names
Dirs == 1..MaxDirs
ArchNames == 1..MaxArchs

\* The members of a set in the order in which readdirSync lists them
Ascending(S) ==
    CHOOSE q \in [1..Cardinality(S) -> S] :
        \A i, j \in 1..Cardinality(S) : i < j => q[i] < q[j]

\* findRTIConnextDDSDirectory (470-519): undefined when the parent directory
\* is unknown or cannot be read, else the matching directories followed by
\* NDDSHOME when it is set and not among them.
FindRTIConnextDDSDirectory(matching, home, failed) ==
    IF failed THEN <<>>
    ELSE IF home # None /\ home \notin matching
           THEN Append(Ascending(matching), home)
           ELSE Ascending(matching)

\* Lines 557-566
IsDefaultInstallation(dir, dirs, defaultDir, home) ==
    \/ defaultDir = dir
    \/ home = dir
    \/ Len(dirs) = 1

\* Lines 613-621
IsDefaultArch(arch, names, defaultInstallation, defaultArch) ==
    defaultInstallation /\ (defaultArch = arch \/ Len(names) = 1)

\* getConnextInstallations (533-637).  findRTIConnextDDSDirectory returns
\* directories only on linux, darwin and win32, so the platform test of
\* 573-577 holds whenever it is reached.
GetConnextInstallations(dirs, names, defaultDir, defaultArch, home) ==
    [k \in 1..Len(dirs) |->
        LET dir == dirs[k]
            def == IsDefaultInstallation(dir, dirs, defaultDir, home)
        IN  [directory |-> dir,
             architectures |->
                [j \in 1..Len(names[dir]) |->
                    [name |-> names[dir][j],
                     default |-> IsDefaultArch(names[dir][j], names[dir],
                                               def, defaultArch)]],
             default |-> def]]

\* getDefaultInstallation (646-660): the positions of the first default
\* installation that has a default architecture and of its first default
\* architecture, or the empty tuple for undefined.
GetDefaultInstallation(list) ==
    LET hits == {p \in (1..Len(list)) \X (1..MaxArchs + 1) :
                    /\ list[p[1]].default
                    /\ p[2] <= Len(list[p[1]].architectures)
                    /\ list[p[1]].architectures[p[2]].default}
    IN  IF hits = {} THEN <<>>
        ELSE CHOOSE p \in hits :
                \A q \in hits : p[1] < q[1] \/ (p[1] = q[1] /\ p[2] <= q[2])

\* setDefaultInstallation (707-723): every installation and every
\* architecture loses the mark (the test of 715 compares a directory with
\* itself), then the two objects passed get it.
SetDefaultInstallation(list, i, a) ==
    [k \in 1..Len(list) |->
        [list[k] EXCEPT
           !.default = (k = i),
           !.architectures =
               [j \in 1..Len(@) |-> [@[j] EXCEPT !.default = (k = i /\ j = a)]]]]

InitInstallations ==
    /\ InitSession
    /\ InitPromptIdle
    /\ InitListener
    /\ InitWaitIdle
    /\ InitFollowupsIdle
    /\ storedDir \in Dirs \cup {None}
    /\ storedArch \in ArchNames \cup {None}
    /\ nddshome \in Dirs \cup {None}
    /\ \E matching \in SUBSET Dirs, failed \in BOOLEAN :
          foundDirs = FindRTIConnextDDSDirectory(matching, nddshome, failed)
    /\ \E names \in [Dirs -> SUBSET ArchNames] :
          archNames = [d \in Dirs |-> Ascending(names[d])]
    /\ installations = <<>>
    /\ lastSelected = <<>>
    /\ nActivations = 0
    /\ nSelects = 0

\* activate (extension.ts 510-513): the context is set, then the
\* installations are computed.
Activate ==
    /\ nActivations < MaxActivations
    /\ nActivations' = nActivations + 1
    /\ installations' = GetConnextInstallations(foundDirs, archNames,
                                                storedDir, storedArch,
                                                nddshome)
    /\ lastSelected' = <<>>
    /\ UNCHANGED <<storedDir, storedArch, nddshome, foundDirs, archNames,
                   nSelects, sessionVars, promptVars, listenerVars, waitVars,
                   followVars>>

\* The select-installation command (extension.ts 653-670) with an
\* installation of the list and one of its architectures:
\* setDefaultInstallation (707-735).
SelectInstallation(i, a) ==
    /\ nActivations > 0
    /\ nSelects < MaxSelects
    /\ i \in 1..Len(installations)
    /\ a \in 1..Len(installations[i].architectures)
    /\ nSelects' = nSelects + 1
    /\ installations' = SetDefaultInstallation(installations, i, a)
    /\ storedDir' = installations[i].directory
    /\ storedArch' = installations[i].architectures[a].name
    /\ lastSelected' = <<i, a>>
    /\ UNCHANGED <<nddshome, foundDirs, archNames, nActivations,
                   sessionVars, promptVars, listenerVars, waitVars,
                   followVars>>

NextInstallations ==
    \/ Activate
    \/ \E i \in 1..MaxDirs, a \in 1..MaxArchs : SelectInstallation(i, a)

SpecInstallations == InitInstallations /\ [][NextInstallations]_vars

\* ---------------------------------------------------- getPrompt claims
RECURSIVE SumSerialized(_, _)
SumSerialized(h, list) ==
    IF list = <<>> THEN 0
    ELSE (IF h[Head(list)].kind = "Request"
            THEN RequestSerializedLen(h[Head(list)])
            ELSE ResponseSerializedLen(h[Head(list)]))
         + SumSerialized(h, Tail(list))

IsPairHistory(h) ==
    /\ Len(h) % 2 = 0
    /\ \A k \in 1..Len(h) :
          h[k].kind = IF k % 2 = 1 THEN "Request" ELSE "Response"

\* C7: the serialized history window, its role delimiters counted, is never
\* longer than limit (stated for the histories the host builds: a request,
\* then its response).
BudgetInvariant ==
    (gpc = "done" /\ IsPairHistory(hist)) =>
        SumSerialized(hist, previousMessagesList) <= Limit(promptLen)

\* C8: for any sequence of turns, the window never holds the response of a
\* pair of the history without the request of that pair right before it,
\* nor the request of a pair without its response.
PairIntegrity ==
    gpc = "done" =>
        \A k \in Range(previousMessagesList) :
            /\ (hist[k].kind = "Response" /\ k > 1
                  /\ hist[k - 1].kind = "Request") =>
                  (k - 1) \in Range(previousMessagesList)
            /\ (hist[k].kind = "Request" /\ k < Len(hist)
                  /\ hist[k + 1].kind = "Response") =>
                  (k + 1) \in Range(previousMessagesList)

\* The accumulated length of the pairs j, j+1, ... of h, as getPrompt
\* accumulates it: the text of the request and the serialized response.
RECURSIVE SuffixLen(_, _)
SuffixLen(h, j) ==
    IF 2 * j > Len(h) THEN 0
    ELSE h[2 * j - 1].len + ResponseSerializedLen(h[2 * j])
         + SuffixLen(h, j + 1)

\* The first pair of the longest suffix of whole pairs that fits in limit
FirstPairKept(h, limit) ==
    CHOOSE j \in 1..(Len(h) \div 2 + 1) :
        /\ SuffixLen(h, j) <= limit
        /\ \A i \in 1..(j - 1) : SuffixLen(h, i) > limit

\* C9: for a history of request/response pairs the window is the longest
\* suffix of whole pairs whose accumulated length does not exceed limit:
\* every older pair is absent and every kept pair is whole.
NewestWholePairs ==
    (gpc = "done" /\ IsPairHistory(hist)) =>
        LET j == FirstPairKept(hist, Limit(promptLen))
        IN  previousMessagesList =
               [k \in 1..(Len(hist) - 2 * j + 2) |-> 2 * j - 2 + k]

\* C9 witness: five equal pairs of which one fits: only the newest is kept.
FiveEqualPairsOneKept ==
    /\ gpc = "done"
    /\ Len(hist) = 10
    /\ IsPairHistory(hist)
    /\ \A k \in 1..10 : hist[k].len = 30000
    /\ totalLength > Limit(promptLen)
    /\ previousMessagesList = <<9, 10>>

EmptyHistoryQuestionOnly ==
    (gpc = "returned" /\ hist = <<>> /\ ~withInfo /\ ~response) =>
        promptWithContext =
            <<BeginHumanRestMessage, Piece("prompt", 0), NewLine,
              EndHumanRestMessage>>

\* C27: a call of getPrompt leaves the history and the session state as
\* they were, writes no file, and a second call with the same arguments
\* returns the string the first call returned.
GetPromptIsPure ==
    [][NextPrompt =>
         /\ hist' = hist
         /\ sessionVars' = sessionVars
         /\ promptFile' = promptFile
         /\ Len(returned') = 2 => returned'[1] = returned'[2]]_vars

\* ====================================================== session claims
Live(s) == sockets[s].st \in {"connecting", "connected"}
Returns(a) == pc[a] # "returned" /\ pc'[a] = "returned"

\* C1: when the cancellation fires while an invocation waits for the
\* response and no terminal payload has arrived, then at its return the
\* result is cancelled, its socket is disconnected, globalState.socket is
\* undefined, connectionReady is false and no response listener of the
\* invocation is left on the socket, however many fragments were streamed.
CancellationTeardown ==
    [][\A a \in Asks :
         (Returns(a) /\ cancelPhase[a] = "awaiting") =>
            /\ result'[a].cancel
            /\ gsSocket' = None
            /\ ~connectionReady'
            /\ sockets'[sock[a]].st \notin {"connecting", "connected"}
            /\ a \notin Range(sockets'[sock[a]].listeners)]_vars

\* C1 witness: a lone invocation was cancelled in mid-stream and returned.
CancelledMidStream ==
    \E a \in Asks :
        /\ pc[a] = "returned"
        /\ cancelPhase[a] = "awaiting"
        /\ result[a].cancel
        /\ lastResponse # <<>>
        /\ \A b \in Asks \ {a} : pc[b] = "idle"

\* C2: once responseReceived is true it stays true, and from then on no
\* fragment is appended to lastResponse or forwarded to the UI while the
\* invocation is still running.
TerminalThenNoFragment ==
    [][\A a \in Asks :
         (responseReceived[a] /\ pc[a] \in {"respwait", "post1", "post2"}
            /\ pc'[a] \in {"respwait", "post1", "post2"}) =>
            /\ responseReceived'[a]
            /\ ui'[a] = ui[a]
            /\ Len(lastResponse') <= Len(lastResponse)]_vars

\* C3: whenever connectionReady is true, globalState.socket holds a socket
\* and that socket is connected.
ReadyImpliesHeldConnected ==
    connectionReady => (gsSocket # None /\ sockets[gsSocket].st = "connected")

\* C4: a socket is never opened while a socket opened before is still
\* connected or still trying to connect.
OneLiveChannel ==
    [][\A s \in SocketIds :
         (sockets[s].st = "none" /\ sockets'[s].st # "none") =>
            \A r \in SocketIds \ {s} : ~Live(r)]_vars

\* C5: two invocations never wait for a response on the same socket at the
\* same time.
NoTwoAwaitingResponse ==
    \A a, b \in Asks :
        (a # b /\ pc[a] = "respwait" /\ pc[b] = "respwait") =>
            sock[a] # sock[b]

\* C6: when an invocation has finished, by a return or by an exception, no
\* response listener it registered is left on any socket.
NoListenerLeft ==
    \A a \in Asks :
        pc[a] \in {"returned", "threw"} =>
            \A s \in SocketIds : a \notin Range(sockets[s].listeners)

\* C10: an invocation that returns a successful answer returns with
\* lastResponse equal to the fragments its listener was handed, in the order
\* of delivery, and has forwarded exactly those fragments in that order.
AnswerInDeliveryOrder ==
    [][\A a \in Asks :
         (Returns(a) /\ responseReceived[a]
            /\ ~result'[a].error /\ ~result'[a].cancel) =>
            /\ lastResponse' = delivered[a]
            /\ ui[a] = delivered[a]]_vars

\* The requests ask a has emitted on socket s
EmitsBy(ss, s, a) ==
    {k \in 1..Len(ss[s].emits) : ss[s].emits[k].ask = a}

\* Ask a has a listener on no socket and has emitted nothing
NoTraffic(ss, a) ==
    \A s \in SocketIds :
        a \notin Range(ss[s].listeners) /\ EmitsBy(ss, s, a) = {}

\* C11: a payload with an error field makes every request listening on the
\* socket terminal at once and marks its result as an error, the error
\* description is shown, the payload adds nothing to lastResponse or to the
\* UI stream, and the error mark is never taken back before the return.
ServerErrorEndsRequest ==
    [][/\ \A s \in SocketIds :
            (\E r \in Asks : Deliver(s, "error", r)) =>
               /\ \A a \in Range(sockets[s].listeners) :
                     /\ responseReceived'[a]
                     /\ result'[a].error
                     /\ ui'[a] = ui[a]
               /\ lastResponse' = lastResponse
               /\ (\E a \in Asks : Active(a)) => "server" \in notes'
       /\ \A a \in Asks : result[a].error => result'[a].error]_vars

\* C11 witness: a fragment, then an error payload; the invocation has
\* returned an error result and the answer holds the fragment only.
ServerErrorReturned ==
    \E a \in Asks :
        /\ pc[a] = "returned"
        /\ result[a].error /\ ~result[a].cancel
        /\ "server" \in notes
        /\ lastResponse = <<1>>
        /\ nPayloads = 2

\* C12: a payload that JSON.parse rejects makes every request listening on
\* the socket terminal at once and marks its result as an error, and nothing
\* is added to lastResponse or to the UI stream.
ParseErrorEndsRequest ==
    [][\A s \in SocketIds :
         (\E r \in Asks : Deliver(s, "malformed", r)) =>
            /\ \A a \in Range(sockets[s].listeners) :
                  /\ responseReceived'[a]
                  /\ result'[a].error
                  /\ ui'[a] = ui[a]
            /\ lastResponse' = lastResponse
            /\ (\E a \in Asks : Active(a)) => "parse" \in notes']_vars

\* C12 witness: the first payload was malformed and the invocation has
\* returned an error result with an empty answer.
ParseErrorReturned ==
    \E a \in Asks :
        /\ pc[a] = "returned"
        /\ result[a].error /\ ~result[a].cancel
        /\ "parse" \in notes
        /\ lastResponse = <<>>
        /\ nPayloads = 1

CancelWhileConnecting ==
    [][\A a \in Asks :
         (pc[a] = "connwait" /\ cancelRequested[a] /\ pc'[a] # "connwait") =>
            /\ pc'[a] = "returned"
            /\ result'[a].cancel /\ ~result'[a].error
            /\ sockets' = sockets
            /\ gsSocket' = gsSocket
            /\ connectionReady' = connectionReady]_vars

\* C14 witness: the socket connected and the cancellation fired during the
\* same wait; the invocation returned cancelled and its socket is still the
\* held, connected one, with nothing emitted.
CancelledAfterConnect ==
    \E a \in Asks :
        /\ pc[a] = "returned"
        /\ cancelPhase[a] = "connecting"
        /\ result[a].cancel
        /\ connectionReady
        /\ gsSocket = a
        /\ sockets[a].st = "connected"
        /\ sockets[a].emits = <<>>

\* C15: "Request timed out." is shown at the end of a response wait exactly
\* when the wait ended by its deadline: the message was sent, and neither a
\* terminal payload, nor the cancellation, nor the loss of the connection
\* ended the wait.
TimedOutOnlyAtDeadline ==
    [][\A a \in Asks :
         (pc[a] = "respwait" /\ pc'[a] = "returned") =>
            ("timeout" \in notes' <=> ~RespCondition(a))]_vars

\* C16: an invocation that returns after a failure notification (connection
\* failed, timed out, server error, parse error) returns a result marked as
\* an error, and one that returns on its cancellation a result marked as
\* cancelled.
FailureIsStructured ==
    [][\A a \in Asks :
         Returns(a) =>
            /\ (notes' \cap {"connfailed", "timeout", "server", "parse"} # {})
                  => result'[a].error
            /\ (cancelRequested[a]
                  /\ pc[a] \in {"connwait", "respwait", "post2"})
                  => result'[a].cancel]_vars

NoLateReady ==
    [][("connfailed" \in notes /\ \A a \in Asks : ~Active(a)) =>
          (connectionReady' => connectionReady)]_vars

\* C19: when the stored access token is replaced while a socket is held,
\* that socket is disconnected, globalState.socket is undefined and
\* connectionReady is false; and no message is emitted on a socket whose
\* access token has been replaced.
EmitOnCurrentCredential ==
    [][/\ (TokenChanged /\ gsSocket # None) =>
             /\ sockets'[gsSocket].st = "closed"
             /\ gsSocket' = None
             /\ ~connectionReady'
       /\ \A s \in SocketIds :
             Len(sockets'[s].emits) > Len(sockets[s].emits) =>
                 ~sockets[s].stale]_vars

\* C20: an invocation that reaches the connection step (its access token
\* was stored and was read without an exception) with a socket held and
\* connectionReady true takes the held socket, opens no socket, leaves
\* globalState.socket alone and goes on without a connection wait.
ReadyIsReused ==
    [][\A a \in Asks :
         (pc[a] = "auth" /\ pc'[a] \notin {"auth", "returned"}
            /\ tokenStored /\ "refresh" \notin notes'
            /\ gsSocket # None /\ connectionReady) =>
            /\ sock'[a] = gsSocket
            /\ gsSocket' = gsSocket
            /\ pc'[a] \in {"respwait", "threw"}
            /\ \A s \in SocketIds :
                  sockets[s].st = "none" => sockets'[s].st = "none"]_vars

\* C20 witness: an invocation waits for its response on the socket that an
\* earlier invocation opened, and has opened none itself.
SecondAskReusesSocket ==
    \E a \in Asks :
        /\ pc[a] = "respwait"
        /\ sock[a] # a
        /\ sockets[a].st = "none"
        /\ sockets[sock[a]].st = "connected"
        /\ EmitsBy(sockets, sock[a], a) # {}

\* C21: an invocation that returns with an error result has shown exactly
\* one error notification, and an invocation that returns a successful
\* answer has shown none.
OneNotificationPerFailure ==
    [][\A a \in Asks :
         Returns(a) =>
            /\ result'[a].error => Cardinality(notes') = 1
            /\ (responseReceived[a] /\ ~result'[a].error
                  /\ ~result'[a].cancel) => notes' = NoNotes]_vars

\* C22: once the terminal payload of a successful answer has arrived, the
\* supplementary queries getCodeContentInfo and getRelatedApplication,
\* failing or not, leave the error and cancellation marks alone, show no
\* notification and let the handler go on to its return.
SupplementaryFailureIsSilent ==
    [][\A a \in Asks :
         (pc[a] \in {"post1", "post2"} /\ pc'[a] # pc[a]) =>
            /\ pc'[a] \in {"post2", "returned"}
            /\ result'[a].error = result[a].error
            /\ notes' = notes]_vars

\* C23: the supplementary queries are started only for an invocation whose
\* terminal payload arrived and that is not marked as an error: never after
\* a server error, a parse error, a timeout or a lost connection.
QueriesOnlyAfterAnswer ==
    [][\A a \in Asks :
         (pc[a] = "respwait" /\ pc'[a] = "post1") =>
            (responseReceived[a] /\ ~result[a].error)]_vars

\* C28: a socket is opened and a message is emitted only when an access
\* token is in the secret storage, and an invocation that leaves the access
\* token step without one returns an error result.
TokenBeforeChannel ==
    [][/\ \A s \in SocketIds :
            (sockets[s].st = "none" /\ sockets'[s].st # "none") =>
               tokenStored'
       /\ \A s \in SocketIds :
            Len(sockets'[s].emits) > Len(sockets[s].emits) => tokenStored'
       /\ \A a \in Asks :
            (pc[a] = "auth" /\ pc'[a] # "auth" /\ ~tokenStored') =>
               (pc'[a] = "returned" /\ result'[a].error)]_vars

\* C30: a message is emitted only on a socket that is connected at that
\* moment, an invocation emits at most one message, and an invocation that
\* returns from the access token step or from the connection wait has
\* emitted none.
EmitOnceWhenConnected ==
    [][/\ \A s \in SocketIds :
            Len(sockets'[s].emits) > Len(sockets[s].emits) =>
               sockets[s].st = "connected"
       /\ \A a \in Asks :
            Cardinality(UNION {{<<s, k>> : k \in EmitsBy(sockets', s, a)}
                                 : s \in SocketIds}) <= 1
       /\ \A a \in Asks :
            (Returns(a) /\ pc[a] \in {"auth", "connwait"}) =>
               \A s \in SocketIds : EmitsBy(sockets', s, a) = {}]_vars

ClassificationIsTotal ==
    [][inbound' # inbound =>
         LET p == inbound'[Len(inbound')]
         IN  /\ ~lsThrew'
             /\ Range(lsAppended') \subseteq {"token"}
             /\ p.json = "invalid" =>
                   (lsReceived' /\ lsError' /\ lsAppended' = lsAppended)
             /\ (p.json # "invalid" /\ p.error = "true") =>
                   (lsReceived' /\ lsError' /\ lsAppended' = lsAppended)
             /\ (p.json # "invalid" /\ p.error # "true"
                   /\ p.last_token = "true") =>
                   (lsReceived' /\ lsError' = lsError
                      /\ lsAppended' = lsAppended)]_vars

\* C31: a payload that the server sends in reply to a request it still
\* answers runs the listener of no invocation in flight but the one that
\* emitted the request: no later ask streams it, accumulates it or takes it
\* as its terminal or error signal.
NoCrossTalk ==
    [][\A s \in SocketIds, k \in PayloadKinds, r \in Asks :
          (r \in pending /\ Deliver(s, k, r)) =>
             \A b \in Range(sockets[s].listeners) : Active(b) => b = r]_vars

\* C32: every message emitted carries the prompt that was passed to the
\* invocation emitting it, whatever other invocations started in between.
QuestionFromOwnPrompt ==
    \A s \in SocketIds : \A k \in 1..Len(sockets[s].emits) :
        sockets[s].emits[k].prompt = sockets[s].emits[k].ask

\* C33: an invocation whose token is already cancelled when the handler is
\* entered returns at once with cancel set and no error, and the step
\* changes neither the held socket, connectionReady, the selected endpoint,
\* lastPrompt, lastResponse nor any socket: none is opened or closed, no
\* listener is registered and nothing is emitted.
PreCancelledChangesNothing ==
    [][\A a \in Asks :
          (pc[a] = "idle" /\ pc'[a] # "idle" /\ cancelRequested[a]) =>
             /\ pc'[a] = "returned"
             /\ result'[a] = [error |-> FALSE, cancel |-> TRUE]
             /\ UNCHANGED <<gsSocket, connectionReady, selectedUrl,
                            lastPrompt, lastResponse, sockets>>]_vars

\* C33 witness: the second invocation was cancelled before it started and
\* has returned, while a ready socket is held and the configured endpoint
\* is no longer the one selected by the first invocation.
PreCancelledSecondAsk ==
    /\ pc[2] = "returned"
    /\ cancelPhase[2] = "early"
    /\ result[2] = [error |-> FALSE, cancel |-> TRUE]
    /\ lastPrompt = 1
    /\ gsSocket # None /\ connectionReady
    /\ selectedUrl # configUrl

ExactlyOneOutcome ==
    [][\A a \in Asks :
          (pc[a] # "returned" /\ pc'[a] = "returned") =>
             /\ ~(result'[a].error /\ result'[a].cancel)
             /\ cancelPhase[a] = "late" =>
                   (~result'[a].cancel /\ gsSocket' = gsSocket)]_vars

\* C36: waitForCondition returns only at a poll, the first being its call;
\* a poll returns exactly when the condition holds or more time than the
\* timeout has elapsed, and otherwise sleeps; and with the clock advancing
\* the function returns in the end.
WaitReturnsAtFirstTick ==
    /\ [][/\ wpc = "check" =>
               (wpc' = "done" <=>
                  (wFlag \/ wCancel \/ wNow > Timeout(wKind)))
          /\ (wpc # "done" /\ wpc' = "done") => wpc = "check"]_vars
    /\ <>(wpc = "done")

\* C36 witness: the condition held at no poll and the function returned at
\* the first poll after the timeout had elapsed.
WaitGaveUpAfterDeadline ==
    /\ wpc = "done"
    /\ ~wFlag /\ ~wCancel
    /\ wNow = Timeout(wKind) + CHECK_INTERVAL

\* C37: whenever provideFollowups has called generateFollowUps, it ends
\* without an exception, and with an empty list when the model call failed,
\* when the reply does not parse as JSON or when the parsed value has no
\* questions list.
FollowUpsDegradeSilently ==
    (fupc = "done" /\ fuAsked) =>
       /\ fuOut.kind = "list"
       /\ (\/ AskQuestionThrows(fuReply)
           \/ ~JsonParses(StripFences(fuReply))
           \/ fuReply.body # "questions") => fuOut.n = 0

\* C38: generateFollowUps is called only for the result of an invocation
\* that ended with an answer.
FollowUpsOnlyAfterAnswer ==
    fuAsked => fuOutcome = "Answer"

\* C39: at most one installation of the list is marked default, a default
\* installation has at most one architecture marked default, and once
\* setDefaultInstallation has been called getDefaultInstallation gives the
\* installation and the architecture of the latest call.
DefaultIsUnique ==
    /\ Cardinality({k \in 1..Len(installations) :
                       installations[k].default}) <= 1
    /\ \A k \in 1..Len(installations) :
          installations[k].default =>
             Cardinality({j \in 1..Len(installations[k].architectures) :
                             installations[k].architectures[j].default}) <= 1
    /\ lastSelected # <<>> =>
          GetDefaultInstallation(installations) = lastSelected
====
